---- MODULE Spec2Model ----
(***************************************************************************)
(* Staking pool ledger (src/src/lib.rs, internal.rs, core_impl.rs,         *)
(* enumeration.rs, util.rs).  One variable holds the StakingContract       *)
(* struct, the others hold the host environment (block height, epoch,      *)
(* timestamp) and the promises in flight between a dispatch and its        *)
(* callback.  A call that panics leaves every variable as it was.          *)
(*                                                                         *)
(* Arithmetic is checked, as in the build the unit tests of lib.rs run     *)
(* in: an unsigned subtraction below zero panics and the whole call is     *)
(* rejected with no state change.  The reward product is formed in U256    *)
(* and the model's integers are unbounded, so the product never wraps;     *)
(* balances stay far below 2^128, so additions are plain.                  *)
(*                                                                         *)
(* No file of src/ sets `paused`; pause and unpause follow the             *)
(* administrative surface of the design document (the pause records the    *)
(* current block in paused_in_block, the unpause leaves it as it is).      *)
(***************************************************************************)
EXTENDS Integers, Sequences, FiniteSets, Bags, TLC

\* ------------------------------------------------------------------ bounds
MaxBlock == 2
MaxDeposits == 2
MaxAmount == 1
MaxInFlight == 2
MaxRewardReserve == 3
StorageCost == 1

\* --------------------------------------------------------- program constants
DEPOSIT_ONE_YOCTOR == 1
NUM_EPOCHS_TO_UNLOCK == 1

Users == {"alice", "bob"}
\* the accounts that ask for transfers (withdraw, harvest); the others stake and unstake
Dispatchers == {"alice"}
OwnerId == "owner"
FtContractId == "ft_contract"
Configs == {[reward_numerator |-> 1, reward_denumerator |-> 2]}

OK == "ok"
None == "none"
ERR_SUBTRACT_OVERFLOW == "attempt to subtract with overflow"
ERR_UNWRAP_NONE == "called Option::unwrap() on a None value"
PromiseResults ==
    {<<>>, <<"NotReady">>, <<"Successful">>, <<"Failed">>, <<"Successful", "Successful">>}

VARIABLES
    contract,         \* struct StakingContract
    block_index,      \* env::block_index()
    epoch_height,     \* env::epoch_height()
    block_timestamp,  \* env::block_timestamp()
    promises,         \* bag of the ft_transfer calls dispatched, callback not yet run
    deposits          \* number of inbound transfers accepted so far

vars == <<contract, block_index, epoch_height, block_timestamp, promises, deposits>>

\* LookupMap::insert
Insert(map, key, value) == (key :> value) @@ map

\* ------------------------------------------------------------ reward engine
\* mutant: the two branches of the reference block are swapped
lasted_block_swapped(self) == IF self.paused THEN block_index ELSE self.paused_in_block

lasted_block(self) == IF self.paused THEN self.paused_in_block ELSE block_index

\* `lasted_block - last_block_balance_change` below zero: the call panics
diff_block_underflows(self, last_block_balance_change) ==
    lasted_block(self) < last_block_balance_change

calculate_reward(self, last_block_balance_change) ==
    (self.total_stake_balance * self.config.reward_numerator
        * (lasted_block(self) - last_block_balance_change))
    \div self.config.reward_denumerator

internal_calculate_account_reward(self, account) ==
    calculate_reward(self, account.last_block_balance_change)

internal_calculate_global_reward(self) ==
    calculate_reward(self, self.last_block_balance_change)

\* ------------------------------------------------------------- call results
Result(status, self, ret, promise) ==
    [status |-> status, self |-> self, ret |-> ret, promise |-> promise]

Panic(self, status) == Result(status, self, 0, <<>>)

\* ---------------------------------------------------------------- accounts
internal_create_account(self, account) ==
    [self EXCEPT !.accounts = Insert(@, account,
        [stake_balance |-> 0,
         pre_stake_balance |-> 0,
         pre_reward |-> 0,
         last_block_balance_change |-> block_index,
         unstake_balance |-> 0,
         unstake_available_epoch_height |-> 0,
         unstake_start_timestamp |-> 0])]

\* account_id: Option<AccountId>, None standing for the absent argument
storage_deposit(self, predecessor, account_id, attached) ==
    LET account == IF account_id = None THEN predecessor ELSE account_id
    IN  IF attached < 1 THEN Panic(self, "ERR_AT_LEAST_ONE_YOCTO")
        ELSE IF account \in DOMAIN self.accounts THEN Result(OK, self, 0, <<>>)
        ELSE IF StorageCost > attached THEN Panic(self, "ERR_STORAGE_DEPOSIT")
        ELSE Result(OK, internal_create_account(self, account), 0, <<>>)

new(owner_id, ft_contract_id, config) ==
    [owner_id |-> owner_id,
     ft_contract_id |-> ft_contract_id,
     config |-> config,
     total_stake_balance |-> 0,
     total_paid_reward_balance |-> 0,
     total_staker |-> 0,
     pre_reward |-> 0,
     last_block_balance_change |-> block_index,
     accounts |-> <<>>,
     paused |-> FALSE,
     paused_in_block |-> 0]

\* ------------------------------------------------------- deposit and stake
\* internal.rs 22-24
deposit_total_staker(self, account) ==
    IF account.stake_balance = 0 THEN self.total_staker + 1 ELSE self.total_staker

\* internal.rs 29-33
deposit_account_update(account, new_reward, amount) ==
    [account EXCEPT
        !.pre_stake_balance = account.stake_balance,
        !.pre_reward = @ + new_reward,
        !.stake_balance = @ + amount,
        !.last_block_balance_change = block_index]

\* mutant: the pool reward is crystallized on the total after the deposit
deposit_contract_update_new_total(self, amount) ==
    [self EXCEPT
        !.total_stake_balance = @ + amount,
        !.pre_reward = @ + internal_calculate_global_reward(
                                [self EXCEPT !.total_stake_balance = @ + amount]),
        !.last_block_balance_change = block_index]

\* internal.rs 37-41
deposit_contract_update(self, amount) ==
    [self EXCEPT
        !.total_stake_balance = @ + amount,
        !.pre_reward = @ + internal_calculate_global_reward(self),
        !.last_block_balance_change = block_index]

\* mutant: a paused pool still takes deposits
deposit_status_ignores_pause(self, predecessor, account_id) ==
    IF account_id \notin DOMAIN self.accounts THEN "ERR_NOT_FOUND_ACCOUNT"
    ELSE IF self.ft_contract_id # predecessor THEN "ERR_NOT_VALID_FT_CONTRACT"
    ELSE OK

\* internal.rs 13-16, the three assertions of internal_deposit_and_stake
deposit_status(self, predecessor, account_id) ==
    IF account_id \notin DOMAIN self.accounts THEN "ERR_NOT_FOUND_ACCOUNT"
    ELSE IF self.paused THEN "ERR_CONTRACT_PAUSED"
    ELSE IF self.ft_contract_id # predecessor THEN "ERR_NOT_VALID_FT_CONTRACT"
    ELSE OK

internal_deposit_and_stake(self, predecessor, account_id, amount) ==
    IF deposit_status(self, predecessor, account_id) # OK
    THEN Panic(self, deposit_status(self, predecessor, account_id))
    ELSE LET account == self.accounts[account_id]
             self1 == [self EXCEPT !.total_staker = deposit_total_staker(self, account)]
         IN  IF diff_block_underflows(self1, account.last_block_balance_change)
             THEN Panic(self, ERR_SUBTRACT_OVERFLOW)
             ELSE LET new_reward == internal_calculate_account_reward(self1, account)
                      self2 == [self1 EXCEPT !.accounts = Insert(@, account_id,
                                    deposit_account_update(account, new_reward, amount))]
                  IN  IF diff_block_underflows(self2, self2.last_block_balance_change)
                      THEN Panic(self, ERR_SUBTRACT_OVERFLOW)
                      ELSE Result(OK, deposit_contract_update(self2, amount), 0, <<>>)

\* returns the amount not used
ft_on_transfer(self, predecessor, sender_id, amount) ==
    LET res == internal_deposit_and_stake(self, predecessor, sender_id, amount)
    IN  IF res.status = OK THEN Result(OK, res.self, 0, <<>>) ELSE res

\* ------------------------------------------------------------------ unstake
\* internal.rs 55-62
unstake_account_update(account, new_reward, amount) ==
    [account EXCEPT
        !.pre_stake_balance = account.stake_balance,
        !.pre_reward = @ + new_reward,
        !.stake_balance = @ - amount,
        !.last_block_balance_change = block_index,
        !.unstake_available_epoch_height = epoch_height + NUM_EPOCHS_TO_UNLOCK,
        !.unstake_balance = @ + amount,
        !.unstake_start_timestamp = block_timestamp]

\* internal.rs 64-66
unstake_total_staker(self, account) ==
    IF account.stake_balance = 0 THEN self.total_staker - 1 ELSE self.total_staker

\* mutant: the pool total is not decreased by the unstaked amount
unstake_contract_update_keeps_total(self, amount) ==
    [self EXCEPT
        !.pre_reward = @ + internal_calculate_global_reward(self),
        !.last_block_balance_change = block_index]

\* internal.rs 71-75
unstake_contract_update(self, amount) ==
    [self EXCEPT
        !.total_stake_balance = @ - amount,
        !.pre_reward = @ + internal_calculate_global_reward(self),
        !.last_block_balance_change = block_index]

internal_unstake(self, account_id, amount) ==
    IF account_id \notin DOMAIN self.accounts THEN Panic(self, ERR_UNWRAP_NONE)
    ELSE LET account == self.accounts[account_id]
         IN  IF amount > account.stake_balance
             THEN Panic(self, "ERR_AMOUNT_MUST_LESS_THAN_BALANCE")
             ELSE IF diff_block_underflows(self, account.last_block_balance_change)
             THEN Panic(self, ERR_SUBTRACT_OVERFLOW)
             ELSE LET new_reward == internal_calculate_account_reward(self, account)
                      new_account == unstake_account_update(account, new_reward, amount)
                      staker == unstake_total_staker(self, new_account)
                      self1 == [self EXCEPT !.total_staker = staker,
                                            !.accounts = Insert(@, account_id, new_account)]
                  IN  IF \/ staker < 0
                         \/ diff_block_underflows(self1, self1.last_block_balance_change)
                         \/ amount > self1.total_stake_balance
                      THEN Panic(self, ERR_SUBTRACT_OVERFLOW)
                      ELSE Result(OK, unstake_contract_update(self1, amount), 0, <<>>)

\* util.rs assert_one_yocto
one_yocto(attached) == attached = 1

unstake(self, predecessor, amount, attached) ==
    IF ~one_yocto(attached) THEN Panic(self, "ERR_ONE_YOCTO")
    ELSE internal_unstake(self, predecessor, amount)

\* ----------------------------------------------------------------- withdraw
\* mutant: the unstake balance is not cleared at dispatch
withdraw_new_account_keeps_balance(account) ==
    [account EXCEPT !.unstake_start_timestamp = 0, !.unstake_available_epoch_height = 0]

\* internal.rs 85-93
withdraw_new_account(account) ==
    [pre_reward |-> account.pre_reward,
     stake_balance |-> account.stake_balance,
     pre_stake_balance |-> account.pre_stake_balance,
     last_block_balance_change |-> account.last_block_balance_change,
     unstake_balance |-> 0,
     unstake_start_timestamp |-> 0,
     unstake_available_epoch_height |-> 0]

\* mutant: the cooldown check asks for an epoch strictly after the unlock epoch
withdraw_status_strict(account) ==
    IF ~(account.unstake_balance > 0) THEN "ERR_UNSTAKE_BALANCE_IS_ZERO"
    ELSE IF ~(account.unstake_available_epoch_height < epoch_height) THEN "ERR_DISABLE_WITHDRAW"
    ELSE OK

\* internal.rs 82-83, the two assertions of internal_withdraw
withdraw_status(account) ==
    IF ~(account.unstake_balance > 0) THEN "ERR_UNSTAKE_BALANCE_IS_ZERO"
    ELSE IF ~(account.unstake_available_epoch_height <= epoch_height) THEN "ERR_DISABLE_WITHDRAW"
    ELSE OK

\* the returned account is carried in ret
internal_withdraw(self, account_id) ==
    IF account_id \notin DOMAIN self.accounts THEN Panic(self, ERR_UNWRAP_NONE)
    ELSE LET account == self.accounts[account_id]
         IN  IF withdraw_status(account) # OK THEN Panic(self, withdraw_status(account))
             ELSE Result(OK,
                    [self EXCEPT !.accounts = Insert(@, account_id, withdraw_new_account(account))],
                    account, <<>>)

\* the promise: ft_transfer(account_id, amount).then(ft_withdraw_callback(account_id, old_account))
\* mutant: the transfer carries the staked balance instead of the unstaked one
withdraw_promise_sends_stake(account_id, old_account) ==
    [callback |-> "ft_withdraw_callback", account_id |-> account_id,
     amount |-> old_account.stake_balance, old_account |-> old_account]

withdraw_promise(account_id, old_account) ==
    [callback |-> "ft_withdraw_callback", account_id |-> account_id,
     amount |-> old_account.unstake_balance, old_account |-> old_account]

withdraw(self, predecessor, attached) ==
    IF ~one_yocto(attached) THEN Panic(self, "ERR_ONE_YOCTO")
    ELSE LET res == internal_withdraw(self, predecessor)
         IN  IF res.status # OK THEN res
             ELSE Result(OK, res.self, 0, <<withdraw_promise(predecessor, res.ret)>>)

\* ------------------------------------------------------------------ harvest
\* enumeration.rs get_account_reward (the account exists and the subtraction does not underflow)
get_account_reward(self, account_id) ==
    self.accounts[account_id].pre_reward
        + internal_calculate_account_reward(self, self.accounts[account_id])

\* the promise: ft_transfer(account_id, amount).then(ft_transfer_callback(amount, account_id))
harvest_promise(account_id, current_reward) ==
    [callback |-> "ft_transfer_callback", account_id |-> account_id, amount |-> current_reward]

\* mutant: a harvest of a zero reward is dispatched instead of rejected
harvest_pays_zero(self, predecessor, attached) ==
    IF ~one_yocto(attached) THEN Panic(self, "ERR_ONE_YOCTO")
    ELSE IF predecessor \notin DOMAIN self.accounts THEN Panic(self, ERR_UNWRAP_NONE)
    ELSE LET account == self.accounts[predecessor]
         IN  IF diff_block_underflows(self, account.last_block_balance_change)
             THEN Panic(self, ERR_SUBTRACT_OVERFLOW)
             ELSE Result(OK, self, 0,
                    <<harvest_promise(predecessor,
                        account.pre_reward + internal_calculate_account_reward(self, account))>>)

harvest(self, predecessor, attached) ==
    IF ~one_yocto(attached) THEN Panic(self, "ERR_ONE_YOCTO")
    ELSE IF predecessor \notin DOMAIN self.accounts THEN Panic(self, ERR_UNWRAP_NONE)
    ELSE LET account == self.accounts[predecessor]
         IN  IF diff_block_underflows(self, account.last_block_balance_change)
             THEN Panic(self, ERR_SUBTRACT_OVERFLOW)
             ELSE LET current_reward == account.pre_reward
                                        + internal_calculate_account_reward(self, account)
                  IN  IF ~(current_reward > 0) THEN Panic(self, "ERR_REWARD_EQUAL_ZERO")
                      ELSE Result(OK, self, 0, <<harvest_promise(predecessor, current_reward)>>)

\* ---------------------------------------------------------------- callbacks
\* mutant: the success branch leaves the crystallized reward in place
harvest_finalize_keeps_reward(self, amount, account_id) ==
    [self EXCEPT
        !.accounts = Insert(@, account_id,
            [self.accounts[account_id] EXCEPT !.last_block_balance_change = block_index]),
        !.total_paid_reward_balance = @ + amount]

\* core_impl.rs 110-115
harvest_finalize(self, amount, account_id) ==
    [self EXCEPT
        !.accounts = Insert(@, account_id,
            [self.accounts[account_id] EXCEPT !.pre_reward = 0,
                                              !.last_block_balance_change = block_index]),
        !.total_paid_reward_balance = @ + amount]

\* mutant: a failed transfer is finalized like a successful one
ft_transfer_callback_failed_as_success(self, results, amount, account_id) ==
    IF Len(results) # 1 THEN Panic(self, "ERR_TOO_MANY_RESULTS")
    ELSE IF results[1] = "NotReady" THEN Panic(self, "unreachable")
    ELSE IF account_id \notin DOMAIN self.accounts THEN Panic(self, ERR_UNWRAP_NONE)
    ELSE Result(OK, harvest_finalize(self, amount, account_id), amount, <<>>)

ft_transfer_callback(self, results, amount, account_id) ==
    IF Len(results) # 1 THEN Panic(self, "ERR_TOO_MANY_RESULTS")
    ELSE IF results[1] = "NotReady" THEN Panic(self, "unreachable")
    ELSE IF results[1] = "Successful"
         THEN IF account_id \notin DOMAIN self.accounts THEN Panic(self, ERR_UNWRAP_NONE)
              ELSE Result(OK, harvest_finalize(self, amount, account_id), amount, <<>>)
    ELSE Panic(self, "ERR_CALL_FAILED")

\* mutant: the failed transfer restores nothing
withdraw_rollback_skipped(self, account_id, old_account) == self

\* mutant: the failed transfer restores the three cooldown fields only
withdraw_rollback_cooldown_only(self, account_id, old_account) ==
    [self EXCEPT !.accounts = Insert(@, account_id,
        [self.accounts[account_id] EXCEPT
            !.unstake_balance = old_account.unstake_balance,
            !.unstake_start_timestamp = old_account.unstake_start_timestamp,
            !.unstake_available_epoch_height = old_account.unstake_available_epoch_height])]

\* core_impl.rs 131-135
withdraw_rollback(self, account_id, old_account) ==
    [self EXCEPT !.accounts = Insert(@, account_id, old_account)]

\* mutant: a result that is still pending is handled as a failure
ft_withdraw_callback_pending_rolls_back(self, results, account_id, old_account) ==
    IF Len(results) # 1 THEN Panic(self, "ERR_TOO_MANY_RESULTS")
    ELSE IF results[1] = "Successful" THEN Result(OK, self, old_account.unstake_balance, <<>>)
    ELSE Result(OK, withdraw_rollback(self, account_id, old_account), 0, <<>>)

ft_withdraw_callback(self, results, account_id, old_account) ==
    IF Len(results) # 1 THEN Panic(self, "ERR_TOO_MANY_RESULTS")
    ELSE IF results[1] = "NotReady" THEN Panic(self, "unreachable")
    ELSE IF results[1] = "Successful" THEN Result(OK, self, old_account.unstake_balance, <<>>)
    ELSE Result(OK, withdraw_rollback(self, account_id, old_account), 0, <<>>)

\* ------------------------------------------------------------ administration
\* the owner's pause and unpause, absent from src/
pause(self) == [self EXCEPT !.paused = TRUE, !.paused_in_block = block_index]

unpause(self) == [self EXCEPT !.paused = FALSE]

\* ------------------------------------------------------------------ promises
\* A withdraw promise also remembers the account as it was before the call
\* (g_before) and whether a later accepted operation has written the same
\* account (g_touched).
InFlight == BagToSet(promises)

RECURSIVE Copies(_, _)
Copies(ps, S) ==
    IF S = {} THEN 0
    ELSE LET p == CHOOSE q \in S : TRUE IN CopiesIn(p, ps) + Copies(ps, S \ {p})

Touched(p, account_id) ==
    IF p.callback = "ft_withdraw_callback" /\ p.account_id = account_id
    THEN [p EXCEPT !.g_touched = TRUE]
    ELSE p

Touch(ps, account_id) ==
    [q \in {Touched(p, account_id) : p \in BagToSet(ps)} |->
        Copies(ps, {p \in BagToSet(ps) : Touched(p, account_id) = q})]

Dispatch(ps, p) == ps (+) SetToBag({p})

Remove(ps, p) == ps (-) SetToBag({p})

Tracked(p, before) ==
    [callback |-> p.callback, account_id |-> p.account_id, amount |-> p.amount,
     old_account |-> p.old_account, g_before |-> before, g_touched |-> FALSE]

\* ------------------------------------------------------------------ actions
Env == <<block_index, epoch_height, block_timestamp>>

Init ==
    /\ block_index = 0
    /\ epoch_height = 0
    /\ block_timestamp = 1
    /\ \E config \in Configs : contract = new(OwnerId, FtContractId, config)
    /\ promises = EmptyBag
    /\ deposits = 0

StorageDepositCall(predecessor, account_id, attached) ==
    /\ contract' = storage_deposit(contract, predecessor, account_id, attached).self
    /\ UNCHANGED <<Env, promises, deposits>>

StorageDeposit ==
    \E predecessor \in Users, account_id \in Users \cup {None}, attached \in 0..StorageCost :
        StorageDepositCall(predecessor, account_id, attached)

FtOnTransferCall(predecessor, sender_id, amount) ==
    LET res == ft_on_transfer(contract, predecessor, sender_id, amount)
    IN  /\ deposits < MaxDeposits
        /\ contract' = res.self
        /\ deposits' = IF res.status = OK THEN deposits + 1 ELSE deposits
        /\ promises' = IF res.status = OK THEN Touch(promises, sender_id) ELSE promises
        /\ UNCHANGED Env

FtOnTransfer ==
    \E predecessor \in {FtContractId, OwnerId}, sender_id \in Users, amount \in 0..MaxAmount :
        FtOnTransferCall(predecessor, sender_id, amount)

UnstakeCall(predecessor, amount, attached) ==
    LET res == unstake(contract, predecessor, amount, attached)
    IN  /\ contract' = res.self
        /\ promises' = IF res.status = OK THEN Touch(promises, predecessor) ELSE promises
        /\ UNCHANGED <<Env, deposits>>

Unstake ==
    \E predecessor \in Users, amount \in 0..MaxAmount, attached \in 0..1 :
        UnstakeCall(predecessor, amount, attached)

WithdrawCall(predecessor, attached) ==
    LET res == withdraw(contract, predecessor, attached)
    IN  /\ BagCardinality(promises) < MaxInFlight
        /\ contract' = res.self
        /\ promises' =
                IF res.status = OK
                THEN Dispatch(Touch(promises, predecessor),
                              Tracked(res.promise[1], contract.accounts[predecessor]))
                ELSE promises
        /\ UNCHANGED <<Env, deposits>>

Withdraw == \E predecessor \in Dispatchers, attached \in 0..1 : WithdrawCall(predecessor, attached)

HarvestCall(predecessor, attached) ==
    LET res == harvest(contract, predecessor, attached)
    IN  /\ BagCardinality(promises) < MaxInFlight
        /\ contract' = res.self
        /\ promises' = IF res.status = OK THEN Dispatch(promises, res.promise[1]) ELSE promises
        /\ UNCHANGED <<Env, deposits>>

Harvest == \E predecessor \in Dispatchers, attached \in 0..1 : HarvestCall(predecessor, attached)

\* The host runs a callback once, with the one resolved result of its transfer, and
\* the promise is then gone.  Any other invocation leaves the promise in flight.
Resolved(results) == results = <<"Successful">> \/ results = <<"Failed">>

\* a reward transfer can succeed only while the reward reserve lasts
ReserveAllows(p, results) ==
    results = <<"Successful">> => contract.total_paid_reward_balance + p.amount <= MaxRewardReserve

FtTransferCallbackCall(p, results) ==
    LET res == ft_transfer_callback(contract, results, p.amount, p.account_id)
    IN  /\ p.callback = "ft_transfer_callback"
        /\ ReserveAllows(p, results)
        /\ contract' = res.self
        /\ promises' = IF Resolved(results)
                        THEN IF res.status = OK
                             THEN Touch(Remove(promises, p), p.account_id)
                             ELSE Remove(promises, p)
                        ELSE promises
        /\ UNCHANGED <<Env, deposits>>

FtTransferCallback ==
    \E p \in InFlight, results \in PromiseResults : FtTransferCallbackCall(p, results)

FtWithdrawCallbackCall(p, results) ==
    LET res == ft_withdraw_callback(contract, results, p.account_id, p.old_account)
    IN  /\ p.callback = "ft_withdraw_callback"
        /\ contract' = res.self
        /\ promises' = IF Resolved(results)
                        THEN IF results = <<"Failed">>
                             THEN Touch(Remove(promises, p), p.account_id)
                             ELSE Remove(promises, p)
                        ELSE promises
        /\ UNCHANGED <<Env, deposits>>

FtWithdrawCallback ==
    \E p \in InFlight, results \in PromiseResults : FtWithdrawCallbackCall(p, results)

Pause ==
    /\ ~contract.paused
    /\ contract' = pause(contract)
    /\ UNCHANGED <<Env, promises, deposits>>

Unpause ==
    /\ contract.paused
    /\ contract' = unpause(contract)
    /\ UNCHANGED <<Env, promises, deposits>>

\* the chain produces a block; an epoch may end with it
AdvanceBlock ==
    /\ block_index < MaxBlock
    /\ block_index' = block_index + 1
    /\ block_timestamp' = block_timestamp + 1
    /\ epoch_height' \in {epoch_height, epoch_height + 1}
    /\ UNCHANGED <<contract, promises, deposits>>

Next ==
    \/ StorageDeposit
    \/ FtOnTransfer
    \/ Unstake
    \/ Withdraw
    \/ Harvest
    \/ FtTransferCallback
    \/ FtWithdrawCallback
    \/ Pause
    \/ Unpause
    \/ AdvanceBlock

Spec == Init /\ [][Next]_vars

\* deposits and unstakes only: no transfer is ever dispatched
NextLedger ==
    \/ StorageDeposit
    \/ FtOnTransfer
    \/ Unstake
    \/ Pause
    \/ Unpause
    \/ AdvanceBlock

SpecLedger == Init /\ [][NextLedger]_vars

\* =================================================================== claims
Registered == DOMAIN contract.accounts

Stakers == {a \in Registered : contract.accounts[a].stake_balance > 0}

RECURSIVE SumStake(_, _)
SumStake(accounts, S) ==
    IF S = {} THEN 0
    ELSE LET a == CHOOSE x \in S : TRUE
         IN  accounts[a].stake_balance + SumStake(accounts, S \ {a})

\* the reference block of the accrual: the pause block while paused, else the current block
reference_block == IF contract.paused THEN contract.paused_in_block ELSE block_index

\* accrue(principal, numerator, denominator, reference_block, checkpoint_block)
accrue(principal, checkpoint_block) ==
    (principal * contract.config.reward_numerator * (reference_block - checkpoint_block))
    \div contract.config.reward_denumerator

CooldownFields(account) ==
    <<account.unstake_balance, account.unstake_start_timestamp,
      account.unstake_available_epoch_height>>

UntouchedWithdraws ==
    {p \in InFlight : p.callback = "ft_withdraw_callback" /\ ~p.g_touched}

WithdrawInFlight(a) ==
    \E p \in InFlight : p.callback = "ft_withdraw_callback" /\ p.account_id = a

\* C1: after any sequence of deposits and unstakes, the pool's total_stake_balance is
\* the sum of the accounts' stake_balance.
C1_Conservation ==
    contract.total_stake_balance = SumStake(contract.accounts, Registered)

C1_Witness ==
    \E a, b \in Registered :
        /\ a # b
        /\ contract.accounts[a].stake_balance > 0
        /\ contract.accounts[b].unstake_balance > 0
        /\ contract.total_stake_balance > 0

\* C2: total_staker is the number of accounts whose stake_balance is above zero.
C2_StakerCount == contract.total_staker = Cardinality(Stakers)

\* C3 as claimed: while a withdraw of an account is in flight, a second Withdraw by
\* that account is rejected.
C3_SecondWithdrawFails ==
    \A a \in Registered :
        WithdrawInFlight(a) => withdraw(contract, a, DEPOSIT_ONE_YOCTOR).status # OK

\* C3 as amended: while a withdraw of an account is in flight and no accepted operation
\* has written the account since its dispatch, a second Withdraw by that account is
\* rejected because the unstake balance is zero.
C3_SecondWithdrawFailsUntouched ==
    \A p \in UntouchedWithdraws :
        withdraw(contract, p.account_id, DEPOSIT_ONE_YOCTOR).status = "ERR_UNSTAKE_BALANCE_IS_ZERO"

C3_Witness ==
    \E p \in UntouchedWithdraws :
        /\ p.amount > 0
        /\ p.old_account.unstake_available_epoch_height <= epoch_height
        /\ contract.accounts[p.account_id].unstake_balance = 0

\* C4 as claimed: Withdraw is rejected while the epoch is before the unlock epoch, and
\* is accepted, clearing the three cooldown fields, otherwise.
C4_CooldownGating ==
    \A a \in Registered :
        LET res == withdraw(contract, a, DEPOSIT_ONE_YOCTOR)
        IN  IF epoch_height < contract.accounts[a].unstake_available_epoch_height
            THEN res.status # OK
            ELSE /\ res.status = OK
                 /\ CooldownFields(res.self.accounts[a]) = <<0, 0, 0>>

\* C4 as amended: a Withdraw with one yocto attached is rejected, changing nothing, while
\* the epoch is before the unlock epoch or the unstake balance is zero, and is accepted,
\* clearing the three cooldown fields, otherwise; with any other attached deposit it is
\* rejected.
C4_CooldownGatingWithBalance ==
    \A a \in Registered, attached \in 0..2 :
        LET res == withdraw(contract, a, attached)
            account == contract.accounts[a]
        IN  IF \/ attached # 1
               \/ epoch_height < account.unstake_available_epoch_height
               \/ account.unstake_balance = 0
            THEN res.status # OK /\ res.self = contract /\ res.promise = <<>>
            ELSE /\ res.status = OK
                 /\ CooldownFields(res.self.accounts[a]) = <<0, 0, 0>>

C4_Witness ==
    /\ \E p \in UntouchedWithdraws :
            CooldownFields(contract.accounts[p.account_id]) = <<0, 0, 0>>
    /\ \E a \in Registered :
            /\ contract.accounts[a].unstake_balance > 0
            /\ epoch_height < contract.accounts[a].unstake_available_epoch_height

\* C5: when the transfer of a withdraw fails and no accepted operation has written the
\* account since the dispatch, the callback leaves the three cooldown fields as they
\* were just before the Withdraw call, returns 0, and a new Withdraw is accepted.
C5_Rollback ==
    [][\A p \in UntouchedWithdraws :
          FtWithdrawCallbackCall(p, <<"Failed">>)
          => /\ CooldownFields(contract'.accounts[p.account_id]) = CooldownFields(p.g_before)
             /\ ft_withdraw_callback(contract, <<"Failed">>, p.account_id, p.old_account).ret = 0
             /\ withdraw(contract', p.account_id, DEPOSIT_ONE_YOCTOR).status = OK]_vars

C5_Witness ==
    \E p \in UntouchedWithdraws :
        /\ CooldownFields(p.g_before) # <<0, 0, 0>>
        /\ CooldownFields(contract.accounts[p.account_id]) = <<0, 0, 0>>
        /\ ENABLED FtWithdrawCallbackCall(p, <<"Failed">>)

\* C6: the inbound transfer notification is rejected, changing nothing, when the caller
\* is not the transfer service, the account does not exist or the pool is paused; in
\* every other case the whole amount is staked and 0 is returned as unused.
C6_DepositGuard ==
    \A predecessor \in {FtContractId, OwnerId} \cup Users, sender_id \in Users,
       amount \in 0..MaxAmount :
        LET res == ft_on_transfer(contract, predecessor, sender_id, amount)
        IN  IF \/ predecessor # contract.ft_contract_id
               \/ sender_id \notin Registered
               \/ contract.paused
            THEN res.status # OK /\ res.self = contract
            ELSE /\ res.status = OK
                 /\ res.ret = 0
                 /\ res.self.accounts[sender_id].stake_balance
                        = contract.accounts[sender_id].stake_balance + amount
                 /\ res.self.total_stake_balance = contract.total_stake_balance + amount

C6_Witness ==
    /\ contract.paused
    /\ Stakers # {}
    /\ Registered # Users

\* C7: an accepted deposit of a at block b on an account with stake s, pre_reward r and
\* checkpoint c leaves pre_stake_balance = s, stake_balance = s + a, checkpoint = b and
\* pre_reward = r + floor(s * numerator * (b - c) / denominator).
C7_DepositCheckpoint ==
    \A sender_id \in Registered, amount \in 0..MaxAmount :
        LET res == ft_on_transfer(contract, contract.ft_contract_id, sender_id, amount)
            account == contract.accounts[sender_id]
        IN  res.status = OK
            => res.self.accounts[sender_id] =
                [account EXCEPT
                    !.pre_stake_balance = account.stake_balance,
                    !.stake_balance = account.stake_balance + amount,
                    !.last_block_balance_change = block_index,
                    !.pre_reward = account.pre_reward
                        + accrue(account.stake_balance, account.last_block_balance_change)]

\* C8: Unstake(amount) with amount <= stake_balance moves amount from stake_balance to
\* unstake_balance, sets the unlock epoch to the current epoch plus one and the
\* checkpoint to the current block, and takes amount off the pool total; with
\* amount > stake_balance it is rejected and changes nothing.
C8_UnstakeEffect ==
    \A a \in Registered, amount \in 0..(MaxAmount + 1) :
        LET res == unstake(contract, a, amount, DEPOSIT_ONE_YOCTOR)
            account == contract.accounts[a]
        IN  IF amount <= account.stake_balance
            THEN /\ res.status = OK
                 /\ res.self.accounts[a].stake_balance = account.stake_balance - amount
                 /\ res.self.accounts[a].unstake_balance = account.unstake_balance + amount
                 /\ res.self.accounts[a].unstake_available_epoch_height = epoch_height + 1
                 /\ res.self.accounts[a].last_block_balance_change = block_index
                 /\ res.self.total_stake_balance = contract.total_stake_balance - amount
            ELSE res.status # OK /\ res.self = contract

\* C9: the pending reward reported for an account is its pre_reward plus
\* floor(stake_balance * numerator * (reference_block - checkpoint) / denominator),
\* on the account's own stake_balance.
C9_RewardFormula ==
    \A a \in Registered :
        LET account == contract.accounts[a]
        IN  ~diff_block_underflows(contract, account.last_block_balance_change)
            => get_account_reward(contract, a)
                = account.pre_reward
                  + accrue(account.stake_balance, account.last_block_balance_change)

\* C10: over a step that writes no account, the pending reward of an account does not
\* decrease when the reference block does not decrease.
C10_AccrualMonotone ==
    [][\A a \in Registered :
          LET account == contract.accounts[a]
          IN  (/\ contract'.accounts = contract.accounts
               /\ reference_block' >= reference_block
               /\ reference_block >= account.last_block_balance_change
               /\ reference_block' >= account.last_block_balance_change)
              => get_account_reward(contract, a)' >= get_account_reward(contract, a)]_vars

C10_Witness ==
    \E a \in Registered :
        /\ contract.accounts[a].stake_balance > 0
        /\ reference_block > contract.accounts[a].last_block_balance_change
        /\ get_account_reward(contract, a) > contract.accounts[a].pre_reward

\* C11: an account whose stake_balance is 0 accrues nothing: the reward computed for it,
\* which is what its pending reward grows by and what a checkpoint adds to its
\* pre_reward, is 0 whatever the other accounts have staked.
C11_ZeroStakeNoAccrual ==
    \A a \in Registered :
        LET account == contract.accounts[a]
        IN  (/\ account.stake_balance = 0
             /\ ~diff_block_underflows(contract, account.last_block_balance_change))
            => /\ internal_calculate_account_reward(contract, account) = 0
               /\ get_account_reward(contract, a) = account.pre_reward

\* enumeration.rs get_pool_info: total_reward (the subtraction does not underflow)
total_reward(self) == self.pre_reward + internal_calculate_global_reward(self)

\* C12: over every step in which the pool stays paused, the pending reward of every
\* account the step does not write and whose checkpoint is not after the pause block,
\* and the pool's total pending reward, stay computable and keep their value.
C12_PauseFreeze ==
    [][(contract.paused /\ contract'.paused)
        => /\ \A a \in Registered :
                (/\ contract'.accounts[a] = contract.accounts[a]
                 /\ ~diff_block_underflows(contract, contract.accounts[a].last_block_balance_change))
                => get_account_reward(contract, a)' = get_account_reward(contract, a)
           /\ ~diff_block_underflows(contract, contract.last_block_balance_change)
                => /\ ~diff_block_underflows(contract, contract.last_block_balance_change)'
                   /\ total_reward(contract)' = total_reward(contract)]_vars

HarvestInFlight == {p \in InFlight : p.callback = "ft_transfer_callback"}

\* C13: a Harvest call changes no account and no pool field; its callback on a failed
\* transfer changes none either; its callback on a successful transfer sets the
\* account's pre_reward to 0 and its checkpoint to the current block, adds the
\* dispatched amount to total_paid_reward_balance, returns that amount and changes
\* nothing else.
C13_PessimisticHarvest ==
    [][/\ \A predecessor \in Users, attached \in 0..1 :
            HarvestCall(predecessor, attached) => contract' = contract
       /\ \A p \in HarvestInFlight :
            /\ FtTransferCallbackCall(p, <<"Failed">>) => contract' = contract
            /\ FtTransferCallbackCall(p, <<"Successful">>)
                => /\ contract' =
                        [contract EXCEPT
                            !.accounts[p.account_id].pre_reward = 0,
                            !.accounts[p.account_id].last_block_balance_change = block_index,
                            !.total_paid_reward_balance = @ + p.amount]
                   /\ ft_transfer_callback(contract, <<"Successful">>, p.amount, p.account_id).ret
                        = p.amount]_vars

C13_Witness ==
    /\ contract.total_paid_reward_balance > 0
    /\ \E p \in HarvestInFlight :
            /\ contract.accounts[p.account_id].pre_reward > 0
            /\ ENABLED FtTransferCallbackCall(p, <<"Successful">>)
            /\ ENABLED FtTransferCallbackCall(p, <<"Failed">>)

Rejected(res) == res.status # OK /\ res.self = contract /\ res.promise = <<>>

\* C14: an Unstake of more than the stake, a Withdraw with no unstake balance or before
\* the unlock epoch, a Harvest of a zero pending reward, and any of the three on an
\* account that does not exist, is rejected, leaves every account and every pool field
\* as it was and dispatches no transfer; so does every other rejected call.
C14_AtomicRejection ==
    \A a \in Users, amount \in 0..(MaxAmount + 1) :
        LET u == unstake(contract, a, amount, DEPOSIT_ONE_YOCTOR)
            w == withdraw(contract, a, DEPOSIT_ONE_YOCTOR)
            h == harvest(contract, a, DEPOSIT_ONE_YOCTOR)
        IN  /\ \A res \in {u, w, h} : res.status # OK => Rejected(res)
            /\ IF a \notin Registered
               THEN Rejected(u) /\ Rejected(w) /\ Rejected(h)
               ELSE LET account == contract.accounts[a]
                    IN  /\ amount > account.stake_balance => Rejected(u)
                        /\ account.unstake_balance = 0 => Rejected(w)
                        /\ epoch_height < account.unstake_available_epoch_height => Rejected(w)
                        /\ (\/ diff_block_underflows(contract, account.last_block_balance_change)
                            \/ get_account_reward(contract, a) = 0) => Rejected(h)

C14_Witness ==
    /\ Registered # Users
    /\ promises # EmptyBag
    /\ \E a \in Registered :
            /\ contract.accounts[a].unstake_balance > 0
            /\ epoch_height < contract.accounts[a].unstake_available_epoch_height
            /\ contract.accounts[a].stake_balance <= MaxAmount
            /\ get_account_reward(contract, a) = 0

\* the callback of promise p run with the given results
callback_result(p, results) ==
    IF p.callback = "ft_transfer_callback"
    THEN ft_transfer_callback(contract, results, p.amount, p.account_id)
    ELSE ft_withdraw_callback(contract, results, p.account_id, p.old_account)

\* C15: a harvest or withdraw callback run with no result, with more than one result or
\* with a result that is still pending aborts and changes no account and no pool field;
\* a callback that changes anything has run on exactly one resolved result.
C15_ContinuationProtocol ==
    \A p \in InFlight, results \in PromiseResults :
        LET res == callback_result(p, results)
        IN  /\ ~Resolved(results) => res.status # OK /\ res.self = contract /\ res.ret = 0
            /\ res.self # contract => Len(results) = 1 /\ results[1] \in {"Successful", "Failed"}

C15_Witness ==
    /\ \E p \in HarvestInFlight :
            callback_result(p, <<"Successful">>).self # contract
    /\ \E p \in InFlight :
            /\ p.callback = "ft_withdraw_callback"
            /\ callback_result(p, <<"Failed">>).self # contract

\* the withdraw promises whose account an accepted operation has written since the dispatch
TouchedWithdraws ==
    {p \in InFlight : p.callback = "ft_withdraw_callback" /\ p.g_touched}

\* C16: when the transfer of a withdraw fails after an accepted deposit, unstake or
\* harvest callback has written the same account, the callback puts the whole snapshot
\* taken before the dispatch back in the account record and leaves every pool field as
\* the interleaved operation left it.
C16_StaleRollback ==
    [][\A p \in TouchedWithdraws :
          FtWithdrawCallbackCall(p, <<"Failed">>)
          => /\ contract'.accounts[p.account_id] = p.old_account
             /\ [contract' EXCEPT !.accounts = contract.accounts] = contract]_vars

\* a state after such a rollback: the stake written by the interleaved operation is gone
\* from the account records and still counted in the pool total
C16_Witness ==
    /\ contract.total_stake_balance # SumStake(contract.accounts, Registered)
    /\ \A p \in InFlight : p.callback # "ft_withdraw_callback"

\* C17: in every reachable state the checkpoint of every account and of the pool is not
\* after the reference block, so the subtraction of the accrual never underflows.
C17_CheckpointBound ==
    /\ contract.last_block_balance_change <= reference_block
    /\ \A a \in Registered : contract.accounts[a].last_block_balance_change <= reference_block

\* C18: from one state to the next the pre_reward of an account never decreases, except
\* in the step of a harvest callback on a successful transfer to that account.
C18_PreRewardMonotone ==
    [][\A a \in Registered :
          \/ contract'.accounts[a].pre_reward >= contract.accounts[a].pre_reward
          \/ \E p \in HarvestInFlight :
                p.account_id = a /\ FtTransferCallbackCall(p, <<"Successful">>)]_vars

\* C19: in every reachable state and for every account, the unlock epoch is 0 exactly
\* when the unstake balance is 0.
C19_CooldownMarker ==
    \A a \in Registered :
        contract.accounts[a].unstake_available_epoch_height = 0
            <=> contract.accounts[a].unstake_balance = 0

\* C20: total_paid_reward_balance starts at 0, grows by the transferred amount in every
\* step that is a harvest callback on a successful transfer and changes in no other
\* step; a harvest callback on a failed transfer leaves it and the account's pre_reward
\* as they were.
C20_PaidRewardAudit ==
    [][/\ \/ \E p \in HarvestInFlight :
                /\ FtTransferCallbackCall(p, <<"Successful">>)
                /\ contract'.total_paid_reward_balance
                        = contract.total_paid_reward_balance + p.amount
          \/ contract'.total_paid_reward_balance = contract.total_paid_reward_balance
       /\ \A p \in HarvestInFlight :
            FtTransferCallbackCall(p, <<"Failed">>)
            => /\ contract'.total_paid_reward_balance = contract.total_paid_reward_balance
               /\ contract'.accounts[p.account_id].pre_reward
                    = contract.accounts[p.account_id].pre_reward]_vars

C20_Witness ==
    /\ contract.total_paid_reward_balance >= 2
    /\ \E p \in HarvestInFlight :
            /\ p.amount > 0
            /\ ENABLED FtTransferCallbackCall(p, <<"Failed">>)

\* C21: an accepted Withdraw sets the caller's unstake_balance, unstake_start_timestamp
\* and unstake_available_epoch_height to 0 and changes nothing else in the caller's
\* record, in any other account or in the pool; it dispatches one transfer, to the
\* caller, of the unstake_balance held just before the call.
C21_WithdrawFrame ==
    \A a \in Registered :
        LET res == withdraw(contract, a, DEPOSIT_ONE_YOCTOR)
        IN  res.status = OK
            => /\ res.self = [contract EXCEPT
                                !.accounts[a].unstake_balance = 0,
                                !.accounts[a].unstake_start_timestamp = 0,
                                !.accounts[a].unstake_available_epoch_height = 0]
               /\ Len(res.promise) = 1
               /\ res.promise[1].account_id = a
               /\ res.promise[1].amount = contract.accounts[a].unstake_balance

C21_Witness ==
    /\ Registered = Users
    /\ \E a \in Stakers :
        /\ withdraw(contract, a, DEPOSIT_ONE_YOCTOR).status = OK
        /\ contract.accounts[a].last_block_balance_change < block_index

\* the step crystallizes the pool reward accrued on the old total and moves the pool
\* checkpoint to the current block
PoolCheckpointed ==
    /\ contract'.pre_reward
        = contract.pre_reward
          + accrue(contract.total_stake_balance, contract.last_block_balance_change)
    /\ contract'.last_block_balance_change = block_index

PoolCheckpointMoved ==
    \/ contract'.pre_reward # contract.pre_reward
    \/ contract'.last_block_balance_change # contract.last_block_balance_change

\* C22 as claimed: a step that changes total_stake_balance checkpoints the pool, and a
\* step that does not change it changes neither the pool's pre_reward nor its checkpoint.
C22_PoolLockStep ==
    [][/\ contract'.total_stake_balance # contract.total_stake_balance => PoolCheckpointed
       /\ PoolCheckpointMoved
            => contract'.total_stake_balance # contract.total_stake_balance]_vars

\* C22 as amended: a step that changes total_stake_balance checkpoints the pool, and a
\* step that changes the pool's pre_reward or checkpoint is an accepted deposit or
\* unstake, of any amount including 0, and checkpoints the pool.
C22_PoolLockStepAnyAmount ==
    [][/\ contract'.total_stake_balance # contract.total_stake_balance => PoolCheckpointed
       /\ PoolCheckpointMoved => PoolCheckpointed /\ (FtOnTransfer \/ Unstake)]_vars

C22_Witness ==
    /\ contract.pre_reward > 0
    /\ contract.last_block_balance_change > 0
    /\ contract.total_stake_balance > 0
    /\ promises # EmptyBag

RECURSIVE SumAmount(_, _)
SumAmount(ps, S) ==
    IF S = {} THEN 0
    ELSE LET p == CHOOSE q \in S : TRUE
         IN  p.amount * CopiesIn(p, ps) + SumAmount(ps, S \ {p})

\* what the ledger holds for an account: staked, unstaked and on its way out
Principal(self, ps, a) ==
    self.accounts[a].stake_balance + self.accounts[a].unstake_balance
    + SumAmount(ps, {p \in BagToSet(ps) :
                        p.callback = "ft_withdraw_callback" /\ p.account_id = a})

\* C23: principal is neither created nor lost: the stake balance, unstake balance and
\* in-flight withdraw amounts of an account together grow by the amount of a deposit
\* accepted for it, shrink by the amount of a withdraw transfer to it that succeeded,
\* and change in no other step.
C23_PrincipalConservation ==
    [][\A a \in Registered :
          \/ Principal(contract', promises', a) = Principal(contract, promises, a)
          \/ \E predecessor \in {FtContractId, OwnerId}, amount \in 0..MaxAmount :
                /\ FtOnTransferCall(predecessor, a, amount)
                /\ Principal(contract', promises', a)
                        = Principal(contract, promises, a) + amount
          \/ \E p \in InFlight :
                /\ p.callback = "ft_withdraw_callback"
                /\ p.account_id = a
                /\ FtWithdrawCallbackCall(p, <<"Successful">>)
                /\ Principal(contract', promises', a)
                        = Principal(contract, promises, a) - p.amount]_vars

\* C24: a successful harvest transfer never pays more than the reward the account has
\* accrued and not yet been paid: when the callback of a successful transfer runs, the
\* amount transferred is at most the account's pre_reward plus its pending accrual.
\* Stated for an account that is the pool's only account, so that its accrual is the
\* accrual on its own stake.
C24_NoOverPayment ==
    [][\A p \in HarvestInFlight :
          (/\ FtTransferCallbackCall(p, <<"Successful">>)
           /\ Registered = {p.account_id}
           /\ ~diff_block_underflows(contract,
                    contract.accounts[p.account_id].last_block_balance_change))
          => p.amount <= get_account_reward(contract, p.account_id)]_vars

\* C25: what an account is owed does not depend on the other accounts: a step that leaves
\* the account's record, the block height and the pause state as they are (an operation
\* of another account) leaves the account's pending reward as it is.
C25_AccountIsolation ==
    [][\A a \in Registered :
          (/\ contract'.accounts[a] = contract.accounts[a]
           /\ block_index' = block_index
           /\ contract'.paused = contract.paused
           /\ contract'.paused_in_block = contract.paused_in_block
           /\ ~diff_block_underflows(contract, contract.accounts[a].last_block_balance_change))
          => get_account_reward(contract, a)' = get_account_reward(contract, a)]_vars

\* C26: once a Withdraw by an account would be accepted, it would still be accepted after
\* every step that is not the dispatch of a Withdraw by that account.
C26_WithdrawableStable ==
    [][\A a \in Registered :
          withdraw(contract, a, DEPOSIT_ONE_YOCTOR).status = OK
          => \/ (withdraw(contract, a, DEPOSIT_ONE_YOCTOR).status = OK)'
             \/ WithdrawCall(a, DEPOSIT_ONE_YOCTOR)]_vars

====
